---------------------------- MODULE Spec2Model ----------------------------
(***************************************************************************)
(* Model of pkg/model/generator_config.go: the generator configuration     *)
(* types and NewGeneratorConfig, which reads a file and unmarshals it      *)
(* (YAML -> JSON -> encoding/json, following the struct tags) into a       *)
(* GeneratorConfig.                                                        *)
(*                                                                         *)
(* A document is the node tree of the file: a node is [k, v] with k one of *)
(* "null", "str", "bool", "seq", "map", or "malformed" for a file that is  *)
(* not a well-formed document.  Map keys are the key texts after the       *)
(* YAML-to-JSON step (every scalar key becomes its text).                  *)
(* A Go value that can be nil (pointer, map, slice) is [nil |-> TRUE] or a *)
(* record holding the value, so that nil and empty are different values.   *)
(***************************************************************************)
EXTENDS Integers, Sequences, FiniteSets, TLC

VARIABLES fs, orig, pc, contents, err, gc, todo, ret, seen, processed, generated

vars == <<fs, orig, pc, contents, err, gc, todo, ret, seen, processed, generated>>

-----------------------------------------------------------------------------
(* Bounds of the model *)

NumWorkers == 2
MaxSeqLen == 2

-----------------------------------------------------------------------------
(* Document nodes *)

DNull == [k |-> "null", v |-> ""]
DMalformed == [k |-> "malformed", v |-> ""]
DStr(s) == [k |-> "str", v |-> s]
DBool(b) == [k |-> "bool", v |-> b]
DSeq(s) == [k |-> "seq", v |-> s]
DMap(f) == [k |-> "map", v |-> f]
DEmptyMap == DMap(<<>>)

(* Go values that can be nil *)

NilPtr == [nil |-> TRUE]
Ptr(x) == [nil |-> FALSE, val |-> x]
NilMap == [nil |-> TRUE]
MkMap(f) == [nil |-> FALSE, m |-> f]
NilSlice == [nil |-> TRUE]
MkSlice(s) == [nil |-> FALSE, s |-> s]

Keys(m) == IF m.nil THEN {} ELSE DOMAIN m.m
Elems(sl) == IF sl.nil THEN {} ELSE {sl.s[i] : i \in DOMAIN sl.s}

(* The result of decoding one node: the value stored and whether an error *)
(* was saved.  The decoder saves the first error and keeps going.         *)
Res(x, e) == [val |-> x, err |-> e]

-----------------------------------------------------------------------------
(* Integer map keys: strconv.ParseInt / strconv.Itoa on key texts.  A text *)
(* is spelled out character by character by Spell.  The key texts of the   *)
(* model are short, so the 64-bit range check of ParseInt never fails.     *)

Spell ==
    "404" :> <<"4", "0", "4">> @@ "500" :> <<"5", "0", "0">> @@
    "-1" :> <<"-", "1">> @@ "abc" :> <<"a", "b", "c">> @@
    "4x4" :> <<"4", "x", "4">> @@ "1.5" :> <<"1", ".", "5">> @@
    "" :> <<>> @@ "-" :> <<"-">>

Texts == DOMAIN Spell

Digits == <<"0", "1", "2", "3", "4", "5", "6", "7", "8", "9">>

IsDigit(c) == \E i \in 1..10 : Digits[i] = c

DigitVal(c) == (CHOOSE i \in 1..10 : Digits[i] = c) - 1

RECURSIVE UintVal(_)
UintVal(cs) ==
    IF cs = <<>> THEN 0
    ELSE 10 * UintVal(SubSeq(cs, 1, Len(cs) - 1)) + DigitVal(cs[Len(cs)])

ParseInt(t) ==
    LET cs == Spell[t]
        signed == cs # <<>> /\ cs[1] \in {"+", "-"}
        ds == IF signed THEN Tail(cs) ELSE cs
        wellFormed == ds # <<>> /\ \A i \in 1..Len(ds) : IsDigit(ds[i])
        n == IF wellFormed THEN UintVal(ds) ELSE 0
    IN  IF ~wellFormed
        THEN [ok |-> FALSE, n |-> 0]
        ELSE [ok |-> TRUE, n |-> IF signed /\ cs[1] = "-" THEN 0 - n ELSE n]

RECURSIVE UintChars(_)
UintChars(n) ==
    IF n < 10 THEN <<Digits[n + 1]>>
    ELSE UintChars(n \div 10) \o <<Digits[(n % 10) + 1]>>

Itoa(n) ==
    LET cs == IF n < 0 THEN <<"-">> \o UintChars(0 - n) ELSE UintChars(n)
    IN  CHOOSE t \in Texts : Spell[t] = cs

-----------------------------------------------------------------------------
(* Decoding, type by type, as encoding/json does it for the declared types *)
(* and tags.  A null node leaves the target at its zero value; a node of   *)
(* the wrong kind saves an error and leaves the target at its zero value;  *)
(* a key that names no field is skipped.                                   *)

(* the node under a struct field's key; a missing key decodes like null *)
Field(d, key) == IF key \in DOMAIN d.v THEN d.v[key] ELSE DNull

(* variant: a pointer field is allocated whatever the node is *)
DecodePtr_Always(d, r) == Res(Ptr(r.val), r.err)

(* a pointer field: null leaves it nil, anything else allocates it *)
DecodePtr(d, r) == IF d.k = "null" THEN Res(NilPtr, FALSE) ELSE Res(Ptr(r.val), r.err)

DecodeString(d) ==
    CASE d.k = "null" -> Res("", FALSE)
      [] d.k = "str" -> Res(d.v, FALSE)
      [] OTHER -> Res("", TRUE)

DecodeBool(d) ==
    CASE d.k = "null" -> Res(FALSE, FALSE)
      [] d.k = "bool" -> Res(d.v, FALSE)
      [] OTHER -> Res(FALSE, TRUE)

(* variant: an empty sequence leaves the slice nil *)
DecodeStringSlice_EmptyIsNil(d) ==
    CASE d.k = "null" -> Res(NilSlice, FALSE)
      [] d.k = "seq" ->
            Res(IF d.v = <<>> THEN NilSlice
                ELSE MkSlice([i \in 1..Len(d.v) |-> DecodeString(d.v[i]).val]),
                \E i \in 1..Len(d.v) : DecodeString(d.v[i]).err)
      [] OTHER -> Res(NilSlice, TRUE)

DecodeStringSlice(d) ==
    CASE d.k = "null" -> Res(NilSlice, FALSE)
      [] d.k = "seq" ->
            Res(MkSlice([i \in 1..Len(d.v) |-> DecodeString(d.v[i]).val]),
                \E i \in 1..Len(d.v) : DecodeString(d.v[i]).err)
      [] OTHER -> Res(NilSlice, TRUE)

DecodeStringMap(d) ==
    CASE d.k = "null" -> Res(NilMap, FALSE)
      [] d.k = "map" ->
            Res(MkMap([key \in DOMAIN d.v |-> DecodeString(d.v[key]).val]),
                \E key \in DOMAIN d.v : DecodeString(d.v[key]).err)
      [] OTHER -> Res(NilMap, TRUE)

ZeroFieldGeneratorConfig == [IsReadOnly |-> FALSE, ContainsOwnerAccountID |-> FALSE]

DecodeFieldGeneratorConfig(d) ==
    CASE d.k = "null" -> Res(ZeroFieldGeneratorConfig, FALSE)
      [] d.k = "map" ->
            LET ro == DecodeBool(Field(d, "is_read_only"))
                own == DecodeBool(Field(d, "contains_owner_account_id"))
            IN  Res([IsReadOnly |-> ro.val, ContainsOwnerAccountID |-> own.val],
                    ro.err \/ own.err)
      [] OTHER -> Res(ZeroFieldGeneratorConfig, TRUE)

(* variant: the table is completed with a default entry for "Owner" *)
DecodeFields_Defaults(d) ==
    CASE d.k = "null" -> Res(NilMap, FALSE)
      [] d.k = "map" ->
            Res(MkMap([key \in DOMAIN d.v \cup {"Owner"} |->
                          IF key \in DOMAIN d.v
                          THEN DecodeFieldGeneratorConfig(d.v[key]).val
                          ELSE [IsReadOnly |-> TRUE, ContainsOwnerAccountID |-> TRUE]]),
                \E key \in DOMAIN d.v : DecodeFieldGeneratorConfig(d.v[key]).err)
      [] OTHER -> Res(NilMap, TRUE)

DecodeFields(d) ==
    CASE d.k = "null" -> Res(NilMap, FALSE)
      [] d.k = "map" ->
            Res(MkMap([key \in DOMAIN d.v |-> DecodeFieldGeneratorConfig(d.v[key]).val]),
                \E key \in DOMAIN d.v : DecodeFieldGeneratorConfig(d.v[key]).err)
      [] OTHER -> Res(NilMap, TRUE)

ZeroUnpackAttributesMapConfig == [Fields |-> NilMap]

DecodeUnpackAttributesMapConfig(d) ==
    CASE d.k = "null" -> Res(ZeroUnpackAttributesMapConfig, FALSE)
      [] d.k = "map" ->
            LET f == DecodeFields(Field(d, "fields"))
            IN  Res([Fields |-> f.val], f.err)
      [] OTHER -> Res(ZeroUnpackAttributesMapConfig, TRUE)

(* variant: a key text that ParseInt rejects is dropped without an error *)
DecodeCodes_SkipBadKeys(d) ==
    CASE d.k = "null" -> Res(NilMap, FALSE)
      [] d.k = "map" ->
            LET good == {t \in DOMAIN d.v : ParseInt(t).ok}
                TextOf(n) == CHOOSE t \in good : ParseInt(t).n = n
            IN  Res(MkMap([n \in {ParseInt(t).n : t \in good} |->
                              DecodeString(d.v[TextOf(n)]).val]),
                    \E t \in DOMAIN d.v : DecodeString(d.v[t]).err)
      [] OTHER -> Res(NilMap, TRUE)

(* map[int]string: a key text that ParseInt rejects saves an error and its *)
(* entry is dropped                                                        *)
DecodeCodes(d) ==
    CASE d.k = "null" -> Res(NilMap, FALSE)
      [] d.k = "map" ->
            LET good == {t \in DOMAIN d.v : ParseInt(t).ok}
                TextOf(n) == CHOOSE t \in good : ParseInt(t).n = n
            IN  Res(MkMap([n \in {ParseInt(t).n : t \in good} |->
                              DecodeString(d.v[TextOf(n)]).val]),
                    \/ good # DOMAIN d.v
                    \/ \E t \in DOMAIN d.v : DecodeString(d.v[t]).err)
      [] OTHER -> Res(NilMap, TRUE)

ZeroExceptionsConfig == [Codes |-> NilMap]

DecodeExceptionsConfig(d) ==
    CASE d.k = "null" -> Res(ZeroExceptionsConfig, FALSE)
      [] d.k = "map" ->
            LET c == DecodeCodes(Field(d, "codes"))
            IN  Res([Codes |-> c.val], c.err)
      [] OTHER -> Res(ZeroExceptionsConfig, TRUE)

ZeroOperationRenamesConfig == [InputFields |-> NilMap, OutputFields |-> NilMap]

DecodeOperationRenamesConfig(d) ==
    CASE d.k = "null" -> Res(ZeroOperationRenamesConfig, FALSE)
      [] d.k = "map" ->
            LET i == DecodeStringMap(Field(d, "input_fields"))
                o == DecodeStringMap(Field(d, "output_fields"))
            IN  Res([InputFields |-> i.val, OutputFields |-> o.val], i.err \/ o.err)
      [] OTHER -> Res(ZeroOperationRenamesConfig, TRUE)

(* variant: one element is decoded once and stored under every operation *)
DecodeOperations_SharedElem(d) ==
    LET Elem(x) == DecodePtr(x, DecodeOperationRenamesConfig(x))
    IN  CASE d.k = "null" -> Res(NilMap, FALSE)
          [] d.k = "map" ->
                LET first == CHOOSE key \in DOMAIN d.v \cup {""} :
                                 DOMAIN d.v # {} => key \in DOMAIN d.v
                IN  Res(MkMap([key \in DOMAIN d.v |-> Elem(d.v[first]).val]),
                        \E key \in DOMAIN d.v : Elem(d.v[key]).err)
          [] OTHER -> Res(NilMap, TRUE)

(* map[string]*OperationRenamesConfig *)
DecodeOperations(d) ==
    LET Elem(x) == DecodePtr(x, DecodeOperationRenamesConfig(x))
    IN  CASE d.k = "null" -> Res(NilMap, FALSE)
          [] d.k = "map" ->
                Res(MkMap([key \in DOMAIN d.v |-> Elem(d.v[key]).val]),
                    \E key \in DOMAIN d.v : Elem(d.v[key]).err)
          [] OTHER -> Res(NilMap, TRUE)

ZeroRenamesConfig == [Operations |-> NilMap]

DecodeRenamesConfig(d) ==
    CASE d.k = "null" -> Res(ZeroRenamesConfig, FALSE)
      [] d.k = "map" ->
            LET o == DecodeOperations(Field(d, "operations"))
            IN  Res([Operations |-> o.val], o.err)
      [] OTHER -> Res(ZeroRenamesConfig, TRUE)

ZeroListOperationConfig == [MatchFields |-> NilSlice]

DecodeListOperationConfig(d) ==
    CASE d.k = "null" -> Res(ZeroListOperationConfig, FALSE)
      [] d.k = "map" ->
            LET m == DecodeStringSlice(Field(d, "match_fields"))
            IN  Res([MatchFields |-> m.val], m.err)
      [] OTHER -> Res(ZeroListOperationConfig, TRUE)

ZeroResourceGeneratorConfig ==
    [NameField |-> NilPtr, UnpackAttributesMapConfig |-> NilPtr, Exceptions |-> NilPtr,
     Renames |-> NilPtr, ListOperation |-> NilPtr]

DecodeResourceGeneratorConfig(d) ==
    CASE d.k = "null" -> Res(ZeroResourceGeneratorConfig, FALSE)
      [] d.k = "map" ->
            LET nf == Field(d, "name_field")
                ua == Field(d, "unpack_attributes_map")
                ex == Field(d, "exceptions")
                rn == Field(d, "renames")
                lo == Field(d, "list_operation")
                n == DecodePtr(nf, DecodeString(nf))
                u == DecodePtr(ua, DecodeUnpackAttributesMapConfig(ua))
                e == DecodePtr(ex, DecodeExceptionsConfig(ex))
                r == DecodePtr(rn, DecodeRenamesConfig(rn))
                l == DecodePtr(lo, DecodeListOperationConfig(lo))
            IN  Res([NameField |-> n.val, UnpackAttributesMapConfig |-> u.val,
                     Exceptions |-> e.val, Renames |-> r.val, ListOperation |-> l.val],
                    n.err \/ u.err \/ e.err \/ r.err \/ l.err)
      [] OTHER -> Res(ZeroResourceGeneratorConfig, TRUE)

(* map[string]ResourceGeneratorConfig *)
DecodeResources(d) ==
    CASE d.k = "null" -> Res(NilMap, FALSE)
      [] d.k = "map" ->
            Res(MkMap([key \in DOMAIN d.v |-> DecodeResourceGeneratorConfig(d.v[key]).val]),
                \E key \in DOMAIN d.v : DecodeResourceGeneratorConfig(d.v[key]).err)
      [] OTHER -> Res(NilMap, TRUE)

ZeroIgnoreSpec == [Operations |-> NilSlice, ResourceNames |-> NilSlice, ShapeNames |-> NilSlice]

(* variant: ResourceNames is read from the operations key and back *)
DecodeIgnoreSpec_WrongTag(d) ==
    CASE d.k = "null" -> Res(ZeroIgnoreSpec, FALSE)
      [] d.k = "map" ->
            LET o == DecodeStringSlice(Field(d, "resource_names"))
                r == DecodeStringSlice(Field(d, "operations"))
                s == DecodeStringSlice(Field(d, "shape_names"))
            IN  Res([Operations |-> o.val, ResourceNames |-> r.val, ShapeNames |-> s.val],
                    o.err \/ r.err \/ s.err)
      [] OTHER -> Res(ZeroIgnoreSpec, TRUE)

DecodeIgnoreSpec(d) ==
    CASE d.k = "null" -> Res(ZeroIgnoreSpec, FALSE)
      [] d.k = "map" ->
            LET o == DecodeStringSlice(Field(d, "operations"))
                r == DecodeStringSlice(Field(d, "resource_names"))
                s == DecodeStringSlice(Field(d, "shape_names"))
            IN  Res([Operations |-> o.val, ResourceNames |-> r.val, ShapeNames |-> s.val],
                    o.err \/ r.err \/ s.err)
      [] OTHER -> Res(ZeroIgnoreSpec, TRUE)

ZeroGeneratorConfig == [Resources |-> NilMap, Ignore |-> ZeroIgnoreSpec]

-----------------------------------------------------------------------------
(* Encoding, type by type, as the same tags serialize a value: every field *)
(* is written, except a nil pointer field tagged omitempty; a nil map or   *)
(* slice is written as null; an integer map key is written as its decimal  *)
(* text.                                                                   *)

(* an omitempty pointer field: no key when the pointer is nil *)
OmitEmpty(key, p, d) == IF p.nil THEN <<>> ELSE key :> d

EncodeStringSlice(sl) ==
    IF sl.nil THEN DNull ELSE DSeq([i \in 1..Len(sl.s) |-> DStr(sl.s[i])])

EncodeStringMap(m) ==
    IF m.nil THEN DNull ELSE DMap([key \in DOMAIN m.m |-> DStr(m.m[key])])

EncodeFieldGeneratorConfig(f) ==
    DMap("is_read_only" :> DBool(f.IsReadOnly) @@
         "contains_owner_account_id" :> DBool(f.ContainsOwnerAccountID))

EncodeFields(m) ==
    IF m.nil THEN DNull
    ELSE DMap([key \in DOMAIN m.m |-> EncodeFieldGeneratorConfig(m.m[key])])

EncodeUnpackAttributesMapConfig(u) == DMap("fields" :> EncodeFields(u.Fields))

EncodeCodes(m) ==
    IF m.nil THEN DNull
    ELSE LET CodeOf(t) == CHOOSE n \in DOMAIN m.m : Itoa(n) = t
         IN  DMap([t \in {Itoa(n) : n \in DOMAIN m.m} |-> DStr(m.m[CodeOf(t)])])

EncodeExceptionsConfig(e) == DMap("codes" :> EncodeCodes(e.Codes))

EncodeOperationRenamesConfig(o) ==
    DMap("input_fields" :> EncodeStringMap(o.InputFields) @@
         "output_fields" :> EncodeStringMap(o.OutputFields))

EncodeOperations(m) ==
    IF m.nil THEN DNull
    ELSE DMap([key \in DOMAIN m.m |->
                  IF m.m[key].nil THEN DNull
                  ELSE EncodeOperationRenamesConfig(m.m[key].val)])

EncodeRenamesConfig(r) == DMap("operations" :> EncodeOperations(r.Operations))

EncodeListOperationConfig(l) == DMap("match_fields" :> EncodeStringSlice(l.MatchFields))

EncodeResourceGeneratorConfig(r) ==
    DMap(OmitEmpty("name_field", r.NameField,
                   IF r.NameField.nil THEN DNull ELSE DStr(r.NameField.val)) @@
         OmitEmpty("unpack_attributes_map", r.UnpackAttributesMapConfig,
                   IF r.UnpackAttributesMapConfig.nil THEN DNull
                   ELSE EncodeUnpackAttributesMapConfig(r.UnpackAttributesMapConfig.val)) @@
         OmitEmpty("exceptions", r.Exceptions,
                   IF r.Exceptions.nil THEN DNull
                   ELSE EncodeExceptionsConfig(r.Exceptions.val)) @@
         OmitEmpty("renames", r.Renames,
                   IF r.Renames.nil THEN DNull ELSE EncodeRenamesConfig(r.Renames.val)) @@
         OmitEmpty("list_operation", r.ListOperation,
                   IF r.ListOperation.nil THEN DNull
                   ELSE EncodeListOperationConfig(r.ListOperation.val)))

EncodeResources(m) ==
    IF m.nil THEN DNull
    ELSE DMap([key \in DOMAIN m.m |-> EncodeResourceGeneratorConfig(m.m[key])])

EncodeIgnoreSpec(i) ==
    DMap("operations" :> EncodeStringSlice(i.Operations) @@
         "resource_names" :> EncodeStringSlice(i.ResourceNames) @@
         "shape_names" :> EncodeStringSlice(i.ShapeNames))

EncodeGeneratorConfig(c) ==
    DMap("resources" :> EncodeResources(c.Resources) @@
         "ignore" :> EncodeIgnoreSpec(c.Ignore))

-----------------------------------------------------------------------------
(* The configurations and documents the model draws from *)

ResourceUniverse == {"Topic", "Queue"}
AttributeUniverse == {"Policy", "Owner"}
OperationUniverse == {"CreateTopic", "GetTopicAttributes"}
WireFieldUniverse == {"Name"}
RenamedUniverse == {"TopicName", "QueueName"}
ShapeUniverse == {"NotFound", "InvalidParameter"}
CodeUniverse == {404, 500, -1}

MapsOver(K, V) == {NilMap} \cup {MkMap(f) : f \in UNION {[S -> V] : S \in SUBSET K}}

SlicesOver(A) == {NilSlice} \cup {MkSlice(q) : q \in UNION {[1..n -> A] : n \in 0..MaxSeqLen}}

PtrsTo(V) == {NilPtr} \cup {Ptr(x) : x \in V}

FieldGeneratorConfigs == [IsReadOnly : BOOLEAN, ContainsOwnerAccountID : BOOLEAN]

UnpackAttributesMapConfigs == [Fields : MapsOver(AttributeUniverse, FieldGeneratorConfigs)]

ExceptionsConfigs == [Codes : MapsOver(CodeUniverse, ShapeUniverse)]

RenameTables == MapsOver(WireFieldUniverse, RenamedUniverse)

OperationRenamesConfigs == [InputFields : RenameTables, OutputFields : RenameTables]

RenamesConfigs == [Operations : MapsOver(OperationUniverse, PtrsTo(OperationRenamesConfigs))]

ListOperationConfigs == [MatchFields : SlicesOver({"Name", "Arn"})]

(* one absent, one present-but-empty and one populated value per sub-config *)
SomeNameFields == {NilPtr, Ptr(""), Ptr("TopicName")}

SomeUnpacks ==
    {NilPtr, Ptr(ZeroUnpackAttributesMapConfig),
     Ptr([Fields |-> MkMap("Policy" :> ZeroFieldGeneratorConfig)])}

SomeExceptions ==
    {NilPtr, Ptr(ZeroExceptionsConfig), Ptr([Codes |-> MkMap(404 :> "NotFound")])}

SomeRenames ==
    {NilPtr, Ptr(ZeroRenamesConfig),
     Ptr([Operations |-> MkMap("CreateTopic" :>
            Ptr([InputFields |-> MkMap("Name" :> "TopicName"), OutputFields |-> NilMap]))])}

SomeListOperations ==
    {NilPtr, Ptr(ZeroListOperationConfig), Ptr([MatchFields |-> MkSlice(<<"Name">>)])}

ResourceConfigs ==
    [NameField : SomeNameFields, UnpackAttributesMapConfig : SomeUnpacks,
     Exceptions : SomeExceptions, Renames : SomeRenames, ListOperation : SomeListOperations]
    \cup {[ZeroResourceGeneratorConfig EXCEPT !.UnpackAttributesMapConfig = Ptr(u)] :
             u \in UnpackAttributesMapConfigs}
    \cup {[ZeroResourceGeneratorConfig EXCEPT !.Exceptions = Ptr(e)] : e \in ExceptionsConfigs}
    \cup {[ZeroResourceGeneratorConfig EXCEPT !.Renames = Ptr(r)] : r \in RenamesConfigs}
    \cup {[ZeroResourceGeneratorConfig EXCEPT !.ListOperation = Ptr(l)] :
             l \in ListOperationConfigs}

FewResourceConfigs ==
    {ZeroResourceGeneratorConfig,
     [ZeroResourceGeneratorConfig EXCEPT !.NameField = Ptr("TopicName")],
     [ZeroResourceGeneratorConfig EXCEPT
         !.UnpackAttributesMapConfig =
             Ptr([Fields |-> MkMap("Policy" :> ZeroFieldGeneratorConfig @@
                                   "Owner" :> [IsReadOnly |-> TRUE,
                                               ContainsOwnerAccountID |-> TRUE])])]}

FewIgnoreSpecs ==
    {[Operations |-> o, ResourceNames |-> r, ShapeNames |-> s] :
        r \in SlicesOver(ResourceUniverse),
        o \in {NilSlice, MkSlice(<<"DeleteTopic">>)},
        s \in {NilSlice, MkSlice(<<>>)}}

Configs ==
    {[Resources |-> MkMap("Topic" :> rc), Ignore |-> ZeroIgnoreSpec] : rc \in ResourceConfigs}
    \cup [Resources : {NilMap, MkMap(<<>>)}
                      \cup {MkMap(f) : f \in [ResourceUniverse -> FewResourceConfigs]},
          Ignore : FewIgnoreSpecs]

(* Documents that are not the serialization of a configuration: keys left  *)
(* out or given as null, nodes of the wrong kind, keys that name no field. *)

SubConfigKeys ==
    {"name_field", "unpack_attributes_map", "exceptions", "renames", "list_operation"}

PopulatedNode ==
    "name_field" :> DStr("TopicName") @@
    "unpack_attributes_map" :>
        DMap("fields" :> DMap("Policy" :> DMap("is_read_only" :> DBool(TRUE)))) @@
    "exceptions" :> DMap("codes" :> DMap("404" :> DStr("NotFound"))) @@
    "renames" :>
        DMap("operations" :> DMap("CreateTopic" :>
            DMap("input_fields" :> DMap("Name" :> DStr("TopicName"))))) @@
    "list_operation" :> DMap("match_fields" :> DSeq(<<DStr("Name")>>))

(* every combination of key missing / key given as null / key populated *)
PresenceNodes ==
    {DMap([key \in S |-> IF key \in N THEN DNull ELSE PopulatedNode[key]]) :
        <<S, N>> \in {<<S, N>> \in (SUBSET SubConfigKeys) \X (SUBSET SubConfigKeys) : N \subseteq S}}

CodesNodes ==
    {DMap([t \in S |-> DStr("NotFound")]) :
        S \in {S \in SUBSET Texts : Cardinality(S) <= MaxSeqLen}}
    \cup {DNull, DSeq(<<>>), DMap("404" :> DSeq(<<>>)),
          DMap("404" :> DStr("NotFound") @@ "500" :> DStr("NotFound"))}

OddNodes ==
    {DMap("name_field" :> x) : x \in {DSeq(<<>>), DEmptyMap}}
    \cup {DMap("unpack_attributes_map" :> x) :
            x \in {DStr("x"), DSeq(<<>>), DEmptyMap, DMap("other" :> DStr("x")),
                   DMap("fields" :> DNull), DMap("fields" :> DSeq(<<>>)),
                   DMap("fields" :> DMap("Policy" :> DNull)),
                   DMap("fields" :> DMap("Policy" :> DStr("x"))),
                   DMap("fields" :> DMap("Policy" :> DMap("is_read_only" :> DStr("yes")))),
                   DMap("fields" :> DMap("Policy" :> DMap("other" :> DBool(TRUE)) @@
                                         "Owner" :> DMap("contains_owner_account_id" :> DBool(TRUE)))),
                   DMap("fields" :>
                        DMap("Policy" :> DMap("contains_owner_account_id" :> DBool(TRUE)) @@
                             "Owner" :> DMap("is_read_only" :> DBool(TRUE) @@
                                             "contains_owner_account_id" :> DBool(TRUE))))}}
    \cup {DMap("exceptions" :> x) :
            x \in {DStr("x"), DEmptyMap} \cup {DMap("codes" :> c) : c \in CodesNodes}}
    \cup {DMap("renames" :> x) :
            x \in {DSeq(<<>>), DEmptyMap, DMap("operations" :> DNull),
                   DMap("operations" :> DSeq(<<>>)),
                   DMap("operations" :> DMap("CreateTopic" :> DNull)),
                   DMap("operations" :> DMap("CreateTopic" :> DStr("x"))),
                   DMap("operations" :> DMap("CreateTopic" :> DMap("input_fields" :> DSeq(<<>>)))),
                   DMap("operations" :>
                        DMap("CreateTopic" :>
                                 DMap("input_fields" :> DMap("Name" :> DStr("TopicName")) @@
                                      "output_fields" :> DMap("Name" :> DStr("QueueName"))) @@
                             "GetTopicAttributes" :>
                                 DMap("input_fields" :> DMap("Name" :> DStr("QueueName"))))),
                   DMap("operations" :>
                        DMap("CreateTopic" :>
                                 DMap("input_fields" :> DMap("Name" :> DStr("TopicName") @@
                                                             "Arn" :> DStr("TopicName")))))}}
    \cup {DMap("list_operation" :> x) :
            x \in {DStr("x"), DEmptyMap, DMap("match_fields" :> DNull),
                   DMap("match_fields" :> DStr("Name")),
                   DMap("match_fields" :> DSeq(<<DStr("Name"), DEmptyMap>>)),
                   DMap("match_fields" :> DSeq(<<DNull, DStr("Arn")>>))}}

FewNodes ==
    {DNull, DEmptyMap, DSeq(<<>>), DMap("other" :> DStr("x")),
     DMap(PopulatedNode),
     DMap("exceptions" :> DMap("codes" :> DMap("abc" :> DStr("NotFound")))),
     DMap("exceptions" :> DMap("codes" :> DMap("404" :> DStr("NotFound") @@
                                               "1.5" :> DStr("InvalidParameter"))))}

IgnoreNodes ==
    {DNull, DEmptyMap, DSeq(<<>>),
     DMap("resource_names" :> DSeq(<<DStr("Topic")>>)),
     DMap("resource_names" :> DSeq(<<DStr("Queue"), DStr("Topic")>>) @@
          "operations" :> DSeq(<<DStr("DeleteTopic")>>)),
     DMap("resource_names" :> DStr("Topic")),
     DMap("resource_names" :> DSeq(<<DStr("Ghost")>>) @@ "shape_names" :> DNull)}

Documents ==
    {DMap("resources" :> DMap("Topic" :> n)) : n \in PresenceNodes \cup OddNodes}
    \cup {DMap("resources" :> DMap("Topic" :> a @@ "Queue" :> b) @@ "ignore" :> i) :
            a \in FewNodes, b \in FewNodes, i \in IgnoreNodes}
    \cup {DMap("resources" :> DMap("Topic" :> a @@ "Queue" :> b)) :
            a \in FewNodes, b \in FewNodes}
    \cup {DNull, DMalformed, DEmptyMap, DSeq(<<>>), DStr("x"),
          DMap("resources" :> DNull), DMap("resources" :> DSeq(<<>>)),
          DMap("ignore" :> DNull), DMap("other" :> DStr("x")),
          DMap("ignore" :> DMap("resource_names" :> DSeq(<<DStr("Topic")>>))),
          DMap("resources" :> DEmptyMap @@ "ignore" :> DEmptyMap)}

(* a file that cannot be read still has contents that a read would have seen *)
UnreadableDocuments ==
    {DNull, DMalformed, DEmptyMap, DMap("resources" :> DMap("Topic" :> DMap(PopulatedNode)))}

-----------------------------------------------------------------------------
(* NewGeneratorConfig, its callers' file and the readers of its result *)

Workers == 1..NumWorkers

Init ==
    /\ \/ /\ orig = NilPtr
          /\ \/ \E d \in Documents : fs = [readable |-> TRUE, doc |-> d]
             \/ \E d \in UnreadableDocuments : fs = [readable |-> FALSE, doc |-> d]
       \/ \E c \in Configs :
             /\ orig = Ptr(c)
             /\ fs = [readable |-> TRUE, doc |-> EncodeGeneratorConfig(c)]
    /\ pc = "start"
    /\ contents = DNull
    /\ err = "nil"
    /\ gc = ZeroGeneratorConfig
    /\ todo = <<>>
    /\ ret = [cfg |-> "nil", err |-> "nil"]
    /\ seen = [w \in Workers |-> NilPtr]
    /\ processed = {}
    /\ generated = <<>>

(* variant: the error of the read is dropped *)
ReadFile_ErrorDropped ==
    /\ pc = "start"
    /\ contents' = (IF fs.readable THEN fs.doc ELSE DNull)
    /\ err' = "nil"
    /\ pc' = "read"
    /\ UNCHANGED <<fs, orig, gc, todo, ret, seen, processed, generated>>

(* contents, err := ioutil.ReadFile(configPath) *)
ReadFile ==
    /\ pc = "start"
    /\ IF fs.readable
       THEN contents' = fs.doc /\ err' = "nil"
       ELSE contents' = DNull /\ err' = "io"
    /\ pc' = "read"
    /\ UNCHANGED <<fs, orig, gc, todo, ret, seen, processed, generated>>

(* if err != nil { return nil, err } after the read *)
ReturnReadError ==
    /\ pc = "read"
    /\ err # "nil"
    /\ ret' = [cfg |-> "nil", err |-> err]
    /\ pc' = "done"
    /\ UNCHANGED <<fs, orig, contents, err, gc, todo, seen, processed, generated>>

(* the fields of GeneratorConfig the document gives, in the order the *)
(* decoder meets them (JSON object keys, sorted)                      *)
TopLevelKeys(d) == SelectSeq(<<"ignore", "resources">>, LAMBDA key : key \in DOMAIN d.v)

(* variant: a document without a top node is an error *)
UnmarshalBegin_EmptyIsError ==
    /\ pc = "read"
    /\ err = "nil"
    /\ CASE contents.k = "map" -> err' = "nil" /\ todo' = TopLevelKeys(contents)
         [] OTHER -> err' = "schema" /\ todo' = <<>>
    /\ pc' = "unmarshal"
    /\ UNCHANGED <<fs, orig, contents, gc, ret, seen, processed, generated>>

(* yaml.Unmarshal(contents, &gc) starts: the document is converted, and its *)
(* top node is matched against the GeneratorConfig struct                   *)
UnmarshalBegin ==
    /\ pc = "read"
    /\ err = "nil"
    /\ CASE contents.k = "map" -> err' = "nil" /\ todo' = TopLevelKeys(contents)
         [] contents.k = "null" -> err' = "nil" /\ todo' = <<>>
         [] OTHER -> err' = "schema" /\ todo' = <<>>
    /\ pc' = "unmarshal"
    /\ UNCHANGED <<fs, orig, contents, gc, ret, seen, processed, generated>>

(* yaml.Unmarshal stores one top-level field into gc *)
UnmarshalField ==
    /\ pc = "unmarshal"
    /\ todo # <<>>
    /\ LET key == Head(todo)
           r == IF key = "resources" THEN DecodeResources(contents.v[key])
                ELSE DecodeIgnoreSpec(contents.v[key])
       IN  /\ gc' = IF key = "resources" THEN [gc EXCEPT !.Resources = r.val]
                    ELSE [gc EXCEPT !.Ignore = r.val]
           /\ err' = IF r.err THEN "schema" ELSE err
    /\ todo' = Tail(todo)
    /\ UNCHANGED <<fs, orig, pc, contents, ret, seen, processed, generated>>

(* variant: what was decoded before the error is returned with the error *)
ReturnUnmarshalError_BestEffort ==
    /\ pc = "unmarshal"
    /\ todo = <<>>
    /\ err # "nil"
    /\ ret' = [cfg |-> "&gc", err |-> err]
    /\ pc' = "done"
    /\ UNCHANGED <<fs, orig, contents, err, gc, todo, seen, processed, generated>>

(* if err = yaml.Unmarshal(...); err != nil { return nil, err } *)
ReturnUnmarshalError ==
    /\ pc = "unmarshal"
    /\ todo = <<>>
    /\ err # "nil"
    /\ ret' = [cfg |-> "nil", err |-> err]
    /\ pc' = "done"
    /\ UNCHANGED <<fs, orig, contents, err, gc, todo, seen, processed, generated>>

(* variant: the reference is handed out while the decoder is still storing *)
ReturnConfig_Early ==
    /\ pc = "unmarshal"
    /\ err = "nil"
    /\ ret' = [cfg |-> "&gc", err |-> "nil"]
    /\ UNCHANGED <<fs, orig, pc, contents, err, gc, todo, seen, processed, generated>>

(* return &gc, nil *)
ReturnConfig ==
    /\ pc = "unmarshal"
    /\ todo = <<>>
    /\ err = "nil"
    /\ ret' = [cfg |-> "&gc", err |-> "nil"]
    /\ pc' = "done"
    /\ UNCHANGED <<fs, orig, contents, err, gc, todo, seen, processed, generated>>

(* a generator worker reads the tree through the returned reference *)
WorkerRead(w) ==
    /\ ret.cfg = "&gc"
    /\ seen' = [seen EXCEPT ![w] = Ptr(gc)]
    /\ UNCHANGED <<fs, orig, pc, contents, err, gc, todo, ret, processed, generated>>

(* the field sets a consumer derives from a resource's attribute table *)
DesiredFields(rc) ==
    IF rc.UnpackAttributesMapConfig.nil THEN {}
    ELSE LET f == rc.UnpackAttributesMapConfig.val.Fields
         IN  {a \in Keys(f) : ~f.m[a].IsReadOnly}

ObservedFields(rc) ==
    IF rc.UnpackAttributesMapConfig.nil THEN {}
    ELSE LET f == rc.UnpackAttributesMapConfig.val.Fields
         IN  {a \in Keys(f) : f.m[a].IsReadOnly}

(* a consumer walks the resources that are not ignored *)
Generate(r) ==
    /\ ret.cfg = "&gc"
    /\ r \in Keys(gc.Resources)
    /\ r \notin Elems(gc.Ignore.ResourceNames)
    /\ r \notin processed
    /\ processed' = processed \cup {r}
    /\ generated' = generated @@
                    r :> [spec |-> DesiredFields(gc.Resources.m[r]),
                          status |-> ObservedFields(gc.Resources.m[r])]
    /\ UNCHANGED <<fs, orig, pc, contents, err, gc, todo, ret, seen>>

Next ==
    \/ ReadFile
    \/ ReturnReadError
    \/ UnmarshalBegin
    \/ UnmarshalField
    \/ ReturnUnmarshalError
    \/ ReturnConfig
    \/ \E w \in Workers : WorkerRead(w)
    \/ \E r \in ResourceUniverse : Generate(r)

Spec == Init /\ [][Next]_vars

-----------------------------------------------------------------------------
(* What a document says, read off the node tree *)

Returned == pc = "done"
Loaded == pc = "done" /\ ret.cfg = "&gc"

(* the node at a key, when the node is a map that has the key *)
Has(d, key) == d.k = "map" /\ key \in DOMAIN d.v
At(d, key) == IF Has(d, key) THEN d.v[key] ELSE DNull
KeysOf(d) == IF d.k = "map" THEN DOMAIN d.v ELSE {}

DocResource(doc, r) == At(At(doc, "resources"), r)
DocResourceNames(doc) == KeysOf(At(doc, "resources"))
DocIgnoredNames(doc) ==
    LET n == At(At(doc, "ignore"), "resource_names")
    IN  IF n.k = "seq" THEN {n.v[i].v : i \in DOMAIN n.v} ELSE {}
DocAttributeKeys(doc, r) ==
    KeysOf(At(At(DocResource(doc, r), "unpack_attributes_map"), "fields"))
DocCodes(doc, r) == At(At(DocResource(doc, r), "exceptions"), "codes")
DocOperations(doc, r) == At(At(DocResource(doc, r), "renames"), "operations")
DocRenameTable(doc, r, op, dir) == At(At(DocOperations(doc, r), op), dir)

(* the key texts of the model that are integers *)
IntegerTexts == {"404", "500", "-1"}

HasNonIntegerCodesKey(doc) ==
    \E r \in DocResourceNames(doc) : KeysOf(DocCodes(doc, r)) \ IntegerTexts # {}

(* a document that is one resource with a codes table of strings, nothing else *)
CodesOnly(doc) ==
    /\ KeysOf(doc) = {"resources"}
    /\ DocResourceNames(doc) = {"Topic"}
    /\ KeysOf(DocResource(doc, "Topic")) = {"exceptions"}
    /\ KeysOf(At(DocResource(doc, "Topic"), "exceptions")) = {"codes"}
    /\ DocCodes(doc, "Topic").k = "map"
    /\ \A t \in KeysOf(DocCodes(doc, "Topic")) : DocCodes(doc, "Topic").v[t].k = "str"

SubConfig(rc, key) ==
    CASE key = "name_field" -> rc.NameField
      [] key = "unpack_attributes_map" -> rc.UnpackAttributesMapConfig
      [] key = "exceptions" -> rc.Exceptions
      [] key = "renames" -> rc.Renames
      [] key = "list_operation" -> rc.ListOperation

-----------------------------------------------------------------------------
(* C1: every call returns either the config with no error or no config with *)
(* an error; a load that failed after part of the config was populated     *)
(* returns no config.                                                      *)
C1_ExactlyOneResult ==
    Returned =>
        /\ \/ ret.cfg = "&gc" /\ ret.err = "nil"
           \/ ret.cfg = "nil" /\ ret.err # "nil"
        /\ err # "nil" => ret.cfg = "nil"

C1_Witness ==
    /\ Returned
    /\ ret = [cfg |-> "nil", err |-> "schema"]
    /\ "Topic" \in Keys(gc.Resources)
    /\ ~gc.Resources.m["Topic"].NameField.nil
    /\ DocResource(fs.doc, "Queue").k = "seq"

(* C2: a path that cannot be read yields the I/O error and no config, and  *)
(* nothing of the document is parsed, whatever the document is.            *)
C2_ReadErrorFirst ==
    (Returned /\ ~fs.readable) =>
        /\ ret = [cfg |-> "nil", err |-> "io"]
        /\ gc = ZeroGeneratorConfig
        /\ contents = DNull

C2_Witness ==
    /\ Returned
    /\ ~fs.readable
    /\ DocResourceNames(fs.doc) # {}
    /\ ret.err = "io"

(* C3: a readable document with a non-integer key in some resource's codes *)
(* table yields the schema error and no config, whatever else it contains; *)
(* a document that is only a codes table loads if and only if all its keys *)
(* are integers, and then the loaded table has exactly those codes.        *)
C3_NonIntegerCodeKey ==
    (Returned /\ fs.readable) =>
        /\ HasNonIntegerCodesKey(fs.doc) => ret = [cfg |-> "nil", err |-> "schema"]
        /\ CodesOnly(fs.doc) =>
              /\ ret.err = "nil" <=> ~HasNonIntegerCodesKey(fs.doc)
              /\ ret.err = "nil" =>
                    Cardinality(Keys(gc.Resources.m["Topic"].Exceptions.val.Codes))
                        = Cardinality(KeysOf(DocCodes(fs.doc, "Topic")))

C3_Witness ==
    /\ Returned
    /\ fs.readable
    /\ KeysOf(DocCodes(fs.doc, "Topic")) = {"404", "1.5"}
    /\ KeysOf(DocResource(fs.doc, "Queue")) = SubConfigKeys
    /\ Has(fs.doc, "ignore")
    /\ ret.err = "schema"

(* C4: the empty document loads without error as the zero config: an empty *)
(* resource map and an ignore spec with no operations, resource names or   *)
(* shape names.                                                            *)
C4_EmptyDocument ==
    (Returned /\ fs.readable /\ fs.doc = DNull) =>
        /\ ret = [cfg |-> "&gc", err |-> "nil"]
        /\ Keys(gc.Resources) = {}
        /\ gc.Ignore = ZeroIgnoreSpec
        /\ Elems(gc.Ignore.Operations) \cup Elems(gc.Ignore.ResourceNames)
              \cup Elems(gc.Ignore.ShapeNames) = {}

C4_Witness == Loaded /\ fs.readable /\ fs.doc = DNull

(* C5: loading the serialization of a config succeeds and yields a value   *)
(* equal to that config.                                                   *)
C5_RoundTrip ==
    (Returned /\ ~orig.nil) => (ret = [cfg |-> "&gc", err |-> "nil"] /\ gc = orig.val)

C5_Witness ==
    /\ Loaded
    /\ ~orig.nil
    /\ Keys(orig.val.Resources) = ResourceUniverse
    /\ ~orig.val.Resources.m["Topic"].UnpackAttributesMapConfig.nil
    /\ orig.val.Resources.m["Queue"] = ZeroResourceGeneratorConfig
    /\ orig.val.Ignore.ShapeNames = MkSlice(<<>>)
    /\ orig.val.Ignore.Operations = NilSlice

(* C6: the keys of a loaded Fields table are exactly the attribute keys the *)
(* document writes, and the desired-state and observed-state field sets    *)
(* derived from it hold no other key.                                      *)
C6_Exclusion ==
    Loaded =>
        /\ \A r \in Keys(gc.Resources) :
              ~gc.Resources.m[r].UnpackAttributesMapConfig.nil =>
                  Keys(gc.Resources.m[r].UnpackAttributesMapConfig.val.Fields)
                      = DocAttributeKeys(fs.doc, r)
        /\ \A r \in DOMAIN generated :
              generated[r].spec \cup generated[r].status \subseteq DocAttributeKeys(fs.doc, r)

C6_Witness ==
    /\ Loaded
    /\ "Topic" \in DOMAIN generated
    /\ DocAttributeKeys(fs.doc, "Topic") = {"Policy"}
    /\ generated["Topic"].spec \cup generated["Topic"].status = {"Policy"}

(* C7: every rename table of the loaded config is the table the document   *)
(* writes for that operation and direction, and the operations of a rename *)
(* config are exactly the operations the document names.                   *)
TableAsWritten(t, d) ==
    /\ Keys(t) = KeysOf(d)
    /\ \A w \in Keys(t) : d.v[w] = DStr(t.m[w])

C7_RenamesIndependent ==
    Loaded =>
        \A r \in Keys(gc.Resources) :
            ~gc.Resources.m[r].Renames.nil =>
                LET ops == gc.Resources.m[r].Renames.val.Operations
                IN  /\ Keys(ops) = KeysOf(DocOperations(fs.doc, r))
                    /\ \A op \in Keys(ops) :
                          ~ops.m[op].nil =>
                              /\ TableAsWritten(ops.m[op].val.InputFields,
                                                DocRenameTable(fs.doc, r, op, "input_fields"))
                              /\ TableAsWritten(ops.m[op].val.OutputFields,
                                                DocRenameTable(fs.doc, r, op, "output_fields"))

C7_Witness ==
    /\ Loaded
    /\ orig.nil
    /\ "Topic" \in Keys(gc.Resources)
    /\ ~gc.Resources.m["Topic"].Renames.nil
    /\ LET ops == gc.Resources.m["Topic"].Renames.val.Operations
       IN  /\ Keys(ops) = OperationUniverse
           /\ ops.m["CreateTopic"].val.InputFields = MkMap("Name" :> "TopicName")
           /\ ops.m["CreateTopic"].val.OutputFields = MkMap("Name" :> "QueueName")
           /\ ops.m["GetTopicAttributes"].val.InputFields = MkMap("Name" :> "QueueName")
           /\ ops.m["GetTopicAttributes"].val.OutputFields = NilMap

(* C8: the load keeps the ignored resource names and the resource          *)
(* overrides as the document writes them, also for a name that is in both, *)
(* and a consumer that walks the resources that are not ignored never      *)
(* processes a resource the document ignores.                              *)
C8_IgnoredSkipped ==
    Loaded =>
        /\ Elems(gc.Ignore.ResourceNames) = DocIgnoredNames(fs.doc)
        /\ Keys(gc.Resources) = DocResourceNames(fs.doc)
        /\ \A r \in Keys(gc.Resources) :
              gc.Resources.m[r].NameField.nil
                  <=> At(DocResource(fs.doc, r), "name_field").k = "null"
        /\ processed \cap DocIgnoredNames(fs.doc) = {}

C8_Witness ==
    /\ Loaded
    /\ DocIgnoredNames(fs.doc) = {"Topic"}
    /\ "Topic" \in Keys(gc.Resources)
    /\ gc.Resources.m["Topic"].NameField = Ptr("TopicName")
    /\ processed = {"Queue"}

(* C9: once the config is returned nothing writes to it: it is the         *)
(* complete result of the load, it stays as it is in every step, and every *)
(* worker that reads it sees that value.                                   *)
C9_Immutable ==
    [][(ret.cfg = "&gc") =>
          /\ todo = <<>>
          /\ gc' = gc
          /\ \A w \in Workers : ~seen'[w].nil => seen'[w].val = gc]_vars

C9_Witness ==
    /\ Loaded
    /\ \A w \in Workers : seen[w] = Ptr(gc)
    /\ Keys(gc.Resources) = ResourceUniverse
    /\ processed # {}

(* C10 as stated: for each resource, a sub-config is present in the loaded *)
(* config if and only if the document gives its key.                       *)
C10_PresentIffKeyGiven ==
    Loaded =>
        \A r \in Keys(gc.Resources) : \A key \in SubConfigKeys :
            ~SubConfig(gc.Resources.m[r], key).nil <=> Has(DocResource(fs.doc, r), key)

(* C10 amended: for each resource, a sub-config is present in the loaded   *)
(* config if and only if the document gives its key with a value that is   *)
(* not null; and the documents with two owner-account-id flags, with a     *)
(* many-to-one rename and with two codes for one shape load with those     *)
(* entries as written.                                                     *)
TwoOwnerFlags ==
    DMap("fields" :>
         DMap("Policy" :> DMap("contains_owner_account_id" :> DBool(TRUE)) @@
              "Owner" :> DMap("is_read_only" :> DBool(TRUE) @@
                              "contains_owner_account_id" :> DBool(TRUE))))

ManyToOneRename ==
    DMap("operations" :>
         DMap("CreateTopic" :>
              DMap("input_fields" :> DMap("Name" :> DStr("TopicName") @@
                                          "Arn" :> DStr("TopicName")))))

TwoCodesOneShape ==
    DMap("codes" :> DMap("404" :> DStr("NotFound") @@ "500" :> DStr("NotFound")))

C10_PresentIffKeyNotNull ==
    /\ Loaded =>
          \A r \in Keys(gc.Resources) : \A key \in SubConfigKeys :
              ~SubConfig(gc.Resources.m[r], key).nil
                  <=> At(DocResource(fs.doc, r), key).k # "null"
    /\ (Returned /\ fs.readable /\ KeysOf(fs.doc) = {"resources"}
            /\ DocResourceNames(fs.doc) = {"Topic"}) =>
          LET n == DocResource(fs.doc, "Topic")
              rc == gc.Resources.m["Topic"]
          IN  /\ n = DMap("unpack_attributes_map" :> TwoOwnerFlags) =>
                    /\ ret.err = "nil"
                    /\ \A a \in AttributeUniverse :
                          rc.UnpackAttributesMapConfig.val.Fields.m[a].ContainsOwnerAccountID
              /\ n = DMap("renames" :> ManyToOneRename) =>
                    /\ ret.err = "nil"
                    /\ rc.Renames.val.Operations.m["CreateTopic"].val.InputFields
                          = MkMap("Name" :> "TopicName" @@ "Arn" :> "TopicName")
              /\ n = DMap("exceptions" :> TwoCodesOneShape) =>
                    /\ ret.err = "nil"
                    /\ rc.Exceptions.val.Codes = MkMap(404 :> "NotFound" @@ 500 :> "NotFound")

C10_Witness ==
    /\ Loaded
    /\ "Topic" \in Keys(gc.Resources)
    /\ Has(DocResource(fs.doc, "Topic"), "exceptions")
    /\ At(DocResource(fs.doc, "Topic"), "exceptions") = DNull
    /\ gc.Resources.m["Topic"].Exceptions.nil
    /\ ~gc.Resources.m["Topic"].Renames.nil
    /\ ~Has(DocResource(fs.doc, "Topic"), "list_operation")

=============================================================================
